---- MODULE Spec2Model ----
(***************************************************************************)
(* Model of the glossary data service of desbuguei:                        *)
(*   normalizeId, getTermData (store -> seed -> generator, write-back)     *)
(*   and seedDatabase (the batch seeder), and of the Glossary page         *)
(*   (its filters and its load of the term list).                          *)
(* Strings are sequences of one-character strings, so that toLowerCase,    *)
(* trim and the two regular-expression replacements are computed.          *)
(***************************************************************************)
EXTENDS Integers, Sequences, FiniteSets, TLC

(***************************************************************************)
(* Bounds of the model                                                     *)
(***************************************************************************)
\* longest input string enumerated for the pure string functions
MaxLen == 4
\* most store inserts that may be in flight at once
MaxPending == 2
\* longest sequence in a generated payload
MaxItems == 2

(***************************************************************************)
(* Characters and strings                                                  *)
(***************************************************************************)
Uppers == <<"A","B","C","D","E","F","G","H","I","J","K","L","M",
            "N","O","P","Q","R","S","T","U","V","W","X","Y","Z">>
Lowers == <<"a","b","c","d","e","f","g","h","i","j","k","l","m",
            "n","o","p","q","r","s","t","u","v","w","x","y","z">>
Digits == {"0","1","2","3","4","5","6","7","8","9"}

Range(s) == { s[i] : i \in 1..Len(s) }

\* the character class [a-z0-9] of the regular expression
IsAlnum(c) == c \in Range(Lowers) \cup Digits

\* white space as String.prototype.trim sees it
IsSpace(c) == c \in {" ", "\t", "\n"}

\* String.prototype.toLowerCase, one character
toLowerChar(c) ==
    IF \E i \in 1..Len(Uppers) : Uppers[i] = c
    THEN Lowers[CHOOSE i \in 1..Len(Uppers) : Uppers[i] = c]
    ELSE c

\* String.prototype.toLowerCase
toLowerCase(s) == [i \in 1..Len(s) |-> toLowerChar(s[i])]

RECURSIVE trimStart(_)
trimStart(s) ==
    IF s = <<>> THEN <<>>
    ELSE IF IsSpace(Head(s)) THEN trimStart(Tail(s)) ELSE s

RECURSIVE trimEnd(_)
trimEnd(s) ==
    IF s = <<>> THEN <<>>
    ELSE IF IsSpace(s[Len(s)]) THEN trimEnd(SubSeq(s, 1, Len(s) - 1)) ELSE s

\* String.prototype.trim
trim(s) == trimEnd(trimStart(s))

\* .replace(/[^a-z0-9]/g, '-'): every single character outside the class
replaceNonAlnum(s) == [i \in 1..Len(s) |-> IF IsAlnum(s[i]) THEN s[i] ELSE "-"]

\* .replace(/-+/g, '-'): every run of hyphens becomes one hyphen
RECURSIVE collapseHyphens(_)
collapseHyphens(s) ==
    IF Len(s) <= 1 THEN s
    ELSE IF s[1] = "-" /\ s[2] = "-" THEN collapseHyphens(Tail(s))
    ELSE <<s[1]>> \o collapseHyphens(Tail(s))

\* a slug that forgets the final collapse of hyphen runs
normalizeIdNoCollapse(text) == replaceNonAlnum(trim(toLowerCase(text)))

\* a slug whose two replacements run in the opposite order
normalizeIdSwapped(text) == replaceNonAlnum(collapseHyphens(trim(toLowerCase(text))))

normalizeId(text) == collapseHyphens(replaceNonAlnum(trim(toLowerCase(text))))

\* rawId of getTermData: lower-cased and trimmed, not slugified
rawIdOf(termId) == trim(toLowerCase(termId))

(***************************************************************************)
(* Inputs of the string functions                                          *)
(***************************************************************************)
Alphabet == {"a", "B", "1", " ", "/", "-"}

StringsUpTo(n) == UNION { [1..k -> Alphabet] : k \in 0..n }

ReactJS == <<"R","e","a","c","t"," ","J","S">>
CICD == <<"C","I","/","C","D">>
CPlusPlus == <<"C","+","+">>
DotNet == <<".","N","E","T">>
NamedExamples == {ReactJS, CICD, CPlusPlus, DotNet}

NormInputs == StringsUpTo(MaxLen) \cup NamedExamples

(***************************************************************************)
(* JavaScript values.  Every value is [k |-> kind, v |-> sequence] so that *)
(* Array.isArray and truthiness are computed from the kind.                *)
(***************************************************************************)
Undef == [k |-> "undefined", v |-> <<>>]
Null == [k |-> "null", v |-> <<>>]
Str(chars) == [k |-> "string", v |-> chars]
Arr(items) == [k |-> "array", v |-> items]
Obj(title, content) == [k |-> "object", v |-> <<title, content>>]

isArray(x) == x.k = "array"

\* ToBoolean of the kinds modelled: undefined, null and "" are falsy
truthy(x) == ~(x.k \in {"undefined", "null"} \/ (x.k = "string" /\ x.v = <<>>))

(***************************************************************************)
(* TermData.  Modelled fields: id, term, fullTerm, definition, examples,   *)
(* analogies, relatedTerms, practicalUsage (category, phonetic, slang and  *)
(* translation are carried through untouched by every operation).          *)
(***************************************************************************)
T_API == <<"A","P","I">>
T_CICD == <<"C","I","/","C","D">>
T_CI_CD == <<"c","i"," ","c","d">>
T_API_SP == <<" ","a","P","I"," ">>
T_CTOR == <<"C","o","n","s","t","r","u","c","t","o","r">>
Blank == <<" ">>

\* the terms callers ask for
RawTerms == {T_API, T_API_SP, T_CICD, T_CI_CD, T_CTOR}

\* the store keys those terms address
Ids == { normalizeId(t) : t \in RawTerms }

K_api == <<"a","p","i">>

\* const localDatabase: the one seed entry, keyed "api"
localDatabase ==
    [key \in {K_api} |->
        [id |-> Str(K_api),
         term |-> Str(<<"API">>),
         fullTerm |-> Str(<<"Application Programming Interface">>),
         definition |-> Str(<<"seed definition">>),
         examples |-> Arr(<<"AUTOMACAO DE FLUXOS", "SINCRONIZACAO DE DADOS">>),
         analogies |-> Arr(<<"O GARCOM NO RESTAURANTE", "TOMADA UNIVERSAL">>),
         relatedTerms |-> Arr(<<"Endpoint", "JSON", "REST", "Webhook", "Gateway", "SDK">>),
         practicalUsage |-> Obj("Na reuniao de alinhamento (Daily)", "Pessoal, a API de pagamentos caiu")]]

\* localDatabase is an object literal: besides its own key it answers the
\* lower-case names it inherits from Object.prototype with a truthy value
K_constructor == <<"c","o","n","s","t","r","u","c","t","o","r">>
K_proto == <<"_","_","p","r","o","t","o","_","_">>
InheritedKeys == {K_constructor, K_proto}

\* an inherited member read as a TermData: none of the fields exists
ObjectMember ==
    [id |-> Undef, term |-> Undef, fullTerm |-> Undef, definition |-> Undef,
     examples |-> Undef, analogies |-> Undef, relatedTerms |-> Undef,
     practicalUsage |-> Undef]

\* localDatabase[rawId]
seedValue(rawId) ==
    IF rawId \in DOMAIN localDatabase THEN localDatabase[rawId] ELSE ObjectMember

\* if (localDatabase[rawId])
hasSeed(rawId) == rawId \in DOMAIN localDatabase \cup InheritedKeys

\* the fixed placeholder for a missing practicalUsage
Placeholder == Obj("Contexto Geral", "Termo usado frequentemente em reunioes de tecnologia.")

\* post-processing that keeps the id the generation backend returned
postProcessKeepId(data, dbId) ==
    [data EXCEPT
        !.examples = IF isArray(@) THEN @ ELSE Arr(<<>>),
        !.analogies = IF isArray(@) THEN @ ELSE Arr(<<>>),
        !.relatedTerms = IF isArray(@) THEN @ ELSE Arr(<<>>),
        !.fullTerm = IF truthy(@) THEN @ ELSE data.term,
        !.practicalUsage = IF truthy(@) THEN @ ELSE Placeholder]

\* post-processing that forgets the defaults of the three sequences
postProcessNoArrays(data, dbId) ==
    [data EXCEPT
        !.id = Str(dbId),
        !.fullTerm = IF truthy(@) THEN @ ELSE data.term,
        !.practicalUsage = IF truthy(@) THEN @ ELSE Placeholder]

\* data.id = dbId, then the defaults
postProcess(data, dbId) ==
    [data EXCEPT
        !.id = Str(dbId),
        !.examples = IF isArray(@) THEN @ ELSE Arr(<<>>),
        !.analogies = IF isArray(@) THEN @ ELSE Arr(<<>>),
        !.relatedTerms = IF isArray(@) THEN @ ELSE Arr(<<>>),
        !.fullTerm = IF truthy(@) THEN @ ELSE data.term,
        !.practicalUsage = IF truthy(@) THEN @ ELSE Placeholder]

\* the row of supabase.from('terms').insert({...})
insertRow(data, dbId) ==
    [id |-> dbId, term |-> data.term, definition |-> data.definition, content |-> data]

(***************************************************************************)
(* What the generation backend may answer                                  *)
(***************************************************************************)
\* a complete payload carrying an id of the backend's own
PayFull ==
    [id |-> Str(<<"x">>),
     term |-> Str(<<"Gen">>),
     fullTerm |-> Str(<<"Generated Term">>),
     definition |-> Str(<<"generated definition">>),
     examples |-> Arr(<<"e1", "e2">>),
     analogies |-> Arr(<<"a1">>),
     relatedTerms |-> Arr(<<"r1">>),
     practicalUsage |-> Obj("Na daily", "frase")]

\* a payload with no id and nothing optional
PayBare ==
    [id |-> Undef,
     term |-> Str(<<"Bare">>),
     fullTerm |-> Undef,
     definition |-> Str(<<"bare definition">>),
     examples |-> Undef,
     analogies |-> Str(<<"not a list">>),
     relatedTerms |-> Null,
     practicalUsage |-> Undef]

GenPayloads == {PayFull, PayBare}

\* the store lookup: a result with data, a result with error, a thrown error
LookupOutcomes == {"data", "error", "throw"}

(***************************************************************************)
(* The Glossary page: its static data                                      *)
(***************************************************************************)
\* one entry of the card list: id, term, category, definition
Item(id, term, category, definition) ==
    [id |-> Str(id), term |-> Str(term), category |-> category, definition |-> Str(definition)]

categories == <<"Todos", "Desenvolvimento", "Infraestrutura", "Agile & Produto", "Dados & IA", "Segurança">>

\* ['#', ...'ABCDEFGHIJKLMNOPQRSTUVWXYZ'.split('')]
alphabet == <<"#">> \o Uppers

staticGlossaryTerms ==
    << Item(<<"a","p","i">>,
            <<"A","P","I">>,
            "Desenvolvimento",
            <<"I","n","t","e","r","f","a","c","e"," ","q","u","e"," ","p","e","r","m","i","t","e"," ","q","u","e"," ","d","o","i","s"," ","a","p","l","i","c","a","t","i","v","o","s"," ","s","e"," ","c","o","m","u","n","i","q","u","e","m"," ","e","n","t","r","e"," ","s","i"," ","a","u","t","o","m","a","t","i","c","a","m","e","n","t","e",".">>),
       Item(<<"a","g","i","l","e">>,
            <<"A","g","i","l","e">>,
            "Agile & Produto",
            <<"M","e","t","o","d","o","l","o","g","i","a"," ","d","e"," ","g","e","s","t","ã","o"," ","f","o","c","a","d","a"," ","e","m"," ","e","n","t","r","e","g","a","s"," ","r","á","p","i","d","a","s"," ","e"," ","m","e","l","h","o","r","i","a"," ","c","o","n","t","í","n","u","a",".">>),
       Item(<<"a","w","s">>,
            <<"A","W","S">>,
            "Infraestrutura",
            <<"P","l","a","t","a","f","o","r","m","a"," ","d","e"," ","s","e","r","v","i","ç","o","s"," ","d","e"," ","c","o","m","p","u","t","a","ç","ã","o"," ","e","m"," ","n","u","v","e","m"," ","d","a"," ","A","m","a","z","o","n",".">>),
       Item(<<"d","e","v","o","p","s">>,
            <<"D","e","v","O","p","s">>,
            "Infraestrutura",
            <<"C","u","l","t","u","r","a"," ","q","u","e"," ","u","n","e"," ","d","e","s","e","n","v","o","l","v","i","m","e","n","t","o"," ","(","D","e","v",")"," ","e"," ","o","p","e","r","a","ç","õ","e","s"," ","(","O","p","s",")"," ","p","a","r","a"," ","e","n","t","r","e","g","a","s"," ","m","a","i","s"," ","r","á","p","i","d","a","s",".">>),
       Item(<<"d","o","c","k","e","r">>,
            <<"D","o","c","k","e","r">>,
            "Infraestrutura",
            <<"P","l","a","t","a","f","o","r","m","a"," ","p","o","p","u","l","a","r"," ","p","a","r","a"," ","c","r","i","a","r"," ","e"," ","g","e","r","e","n","c","i","a","r"," ","c","o","n","t","a","i","n","e","r","s",".">>),
       Item(<<"k","u","b","e","r","n","e","t","e","s">>,
            <<"K","u","b","e","r","n","e","t","e","s">>,
            "Infraestrutura",
            <<"S","i","s","t","e","m","a"," ","p","a","r","a"," ","a","u","t","o","m","a","t","i","z","a","r"," ","a"," ","g","e","s","t","ã","o"," ","d","e"," ","a","p","l","i","c","a","ç","õ","e","s"," ","e","m"," ","c","o","n","t","a","i","n","e","r","s",".">>),
       Item(<<"p","y","t","h","o","n">>,
            <<"P","y","t","h","o","n">>,
            "Dados & IA",
            <<"L","i","n","g","u","a","g","e","m"," ","d","e"," ","p","r","o","g","r","a","m","a","ç","ã","o"," ","p","o","p","u","l","a","r"," ","e","m"," ","c","i","ê","n","c","i","a"," ","d","e"," ","d","a","d","o","s"," ","e"," ","a","u","t","o","m","a","ç","ã","o",".">>),
       Item(<<"s","q","l">>,
            <<"S","Q","L">>,
            "Dados & IA",
            <<"L","i","n","g","u","a","g","e","m"," ","p","a","d","r","ã","o"," ","p","a","r","a"," ","g","e","r","e","n","c","i","a","r"," ","b","a","n","c","o","s"," ","d","e"," ","d","a","d","o","s"," ","r","e","l","a","c","i","o","n","a","i","s",".">>) >>

(***************************************************************************)
(* State                                                                   *)
(***************************************************************************)
VARIABLES
    supabaseUrl,  \* process.env.SUPABASE_URL is set and not empty
    supabaseKey,  \* process.env.SUPABASE_ANON_KEY is set and not empty
    store,        \* the 'terms' table: id -> row, or NoRow
    pending,      \* inserts issued by getTermData and not yet answered
    calls,        \* one getTermData activation per caller
    seedPc,       \* seedDatabase: "idle", "get", "delay", "done"
    seedCustom,   \* seedDatabase: the customList argument
    seedList,     \* seedDatabase: listToProcess
    seedIdx,      \* seedDatabase: position of the for-of loop in listToProcess
    seedLog,      \* seedDatabase: the messages handed to onProgress, in order
    seedAttempts, \* seedDatabase: the terms handed to getTermData, in order
    nPc,          \* string functions: "off", "in", "once", "twice"
    nIn,          \* string functions: the input text
    nOut,         \* string functions: normalizeId(nIn)
    nOut2,        \* string functions: normalizeId(nOut)
    dPc,          \* defaulting: "off", "in", "out"
    dIn,          \* defaulting: the parsed payload
    dOut,         \* defaulting: the record after post-processing
    activeCat,    \* Glossary: the category chip selected
    searchTerm,   \* Glossary: the text of the search input
    activeLetter, \* Glossary: the letter of the A-Z bar selected, or null
    terms,        \* Glossary: the entries the card list is filtered from
    loading,      \* Glossary: the loading flag
    gPc,          \* Glossary: "off", "mounted", "query", "done" (fetchTerms)
    fetched,      \* Glossary: what the query of fetchTerms was answered with
    lastEvent     \* Glossary: the handler that ran last, with its argument

sysVars == <<supabaseUrl, supabaseKey, store, pending, calls, seedPc, seedCustom, seedList,
             seedIdx, seedLog, seedAttempts>>
normVars == <<nPc, nIn, nOut, nOut2>>
defVars == <<dPc, dIn, dOut>>
glossVars == <<activeCat, searchTerm, activeLetter, terms, loading, gPc, fetched, lastEvent>>
vars == <<sysVars, normVars, defVars, glossVars>>

\* no record: the result of a call that has none, a null content column
NoData == [id |-> Null, term |-> Null, fullTerm |-> Null, definition |-> Null,
           examples |-> Null, analogies |-> Null, relatedTerms |-> Null,
           practicalUsage |-> Null]
\* an answer of the generation backend: generateContent throws, response.text
\* is empty, JSON.parse throws, or JSON.parse yields data
Answer(kind, data) == [kind |-> kind, data |-> data]
GenFailures == { Answer(k, NoData) : k \in {"throw", "empty", "badjson"} }
GenAnswers == GenFailures \cup { Answer("json", p) : p \in GenPayloads }

\* no row under an id (data: null)
NoRow == [id |-> <<>>, term |-> Undef, definition |-> Undef, content |-> NoData]

\* !!supabaseUrl && !!supabaseKey
isSupabaseConfigured == supabaseUrl /\ supabaseKey

\* the callers of getTermData: the term page and the seeder
Callers == {"ui", "seeder"}

\* a getTermData activation that has not been started
IdleCall ==
    [pc |-> "idle", termId |-> <<>>, rawId |-> <<>>, dbId |-> <<>>,
     result |-> NoData, error |-> "",
     lookups |-> 0, lookup |-> "none", held |-> NoRow, seedRead |-> FALSE,
     genCalls |-> 0, gen |-> "none", payload |-> NoData,
     inserts |-> 0, insertKey |-> <<>>]

\* a row some earlier session saved under id
StoredRow(id) ==
    insertRow([PayFull EXCEPT !.id = Str(id), !.term = Str(<<"Stored">>),
                              !.definition = Str(<<"stored definition">>)], id)

\* a row whose content column is null
EmptyRow(id) == [id |-> id, term |-> Str(<<"Empty">>), definition |-> Undef, content |-> NoData]

InitSys ==
    /\ supabaseUrl \in BOOLEAN
    /\ supabaseKey \in BOOLEAN
    /\ store \in [Ids -> {NoRow}] \cup
                 (IF isSupabaseConfigured
                  THEN { [i \in Ids |-> IF i \in S THEN StoredRow(i)
                                        ELSE IF i \in E THEN EmptyRow(i) ELSE NoRow] :
                           S \in SUBSET Ids, E \in SUBSET {normalizeId(T_CICD)} }
                  ELSE {})
    /\ pending = <<>>
    /\ calls = [c \in Callers |-> IdleCall]
    /\ seedPc = "idle"
    /\ seedCustom = [given |-> FALSE, list |-> <<>>]
    /\ seedList = <<>>
    /\ seedIdx = 0
    /\ seedLog = <<>>
    /\ seedAttempts = <<>>

NormIdle == nPc = "off" /\ nIn = <<>> /\ nOut = <<>> /\ nOut2 = <<>>
DefIdle == dPc = "off" /\ dIn = NoData /\ dOut = NoData

\* an answer of the query of fetchTerms: rows, an error result, a thrown error
Fetched(kind, data) == [kind |-> kind, data |-> data]
NotFetched == Fetched("none", <<>>)

Event(kind, arg) == [k |-> kind, a |-> arg]
NoEvent == Event("none", <<>>)

\* the Glossary page is not shown: its state is what useState starts it with
GlossInitial ==
    /\ activeCat = "Todos"
    /\ searchTerm = <<>>
    /\ activeLetter = Null
    /\ terms = staticGlossaryTerms
    /\ loading = TRUE
    /\ fetched = NotFetched
    /\ lastEvent = NoEvent
GlossIdle == gPc = "off" /\ GlossInitial

Init == InitSys /\ NormIdle /\ DefIdle /\ GlossIdle

(***************************************************************************)
(* getTermData                                                             *)
(***************************************************************************)
\* B and the start of C: the seed lookup, then the generation request
\* (a variant that skips the seed lookup)
seedTierNoSeed(rec) ==
    [rec EXCEPT !.pc = "gen", !.genCalls = @ + 1]

seedTier(rec) ==
    IF hasSeed(rec.rawId)
    THEN [rec EXCEPT !.seedRead = TRUE, !.pc = "returned",
                     !.result = seedValue(rec.rawId)]
    ELSE [rec EXCEPT !.seedRead = TRUE, !.pc = "gen", !.genCalls = @ + 1]

\* an entry that asks the store whatever the configuration
enterAlwaysLookup(termId, isConfigured) ==
    [IdleCall EXCEPT !.termId = termId, !.rawId = rawIdOf(termId),
                     !.dbId = normalizeId(termId), !.pc = "lookup", !.lookups = 1]

\* getTermData up to its first await
enter(termId, isConfigured) ==
    LET rec == [IdleCall EXCEPT !.termId = termId, !.rawId = rawIdOf(termId),
                                !.dbId = normalizeId(termId)]
    IN IF isConfigured
       THEN [rec EXCEPT !.pc = "lookup", !.lookups = 1]
       ELSE seedTier(rec)

\* a store tier that lets a thrown lookup error escape
storeTierPropagates(rec, outcome, row) ==
    IF outcome = "data" /\ row # NoRow /\ row.content # NoData
    THEN [rec EXCEPT !.lookup = outcome, !.held = row, !.pc = "returned",
                     !.result = row.content]
    ELSE IF outcome = "throw"
    THEN [rec EXCEPT !.lookup = outcome, !.held = row, !.pc = "thrown",
                     !.error = "store"]
    ELSE seedTier([rec EXCEPT !.lookup = outcome, !.held = row])

\* a store tier that prefers the seed entry to the stored record
storeTierSeedFirst(rec, outcome, row) ==
    IF hasSeed(rec.rawId)
    THEN seedTier([rec EXCEPT !.lookup = outcome, !.held = row])
    ELSE IF outcome = "data" /\ row # NoRow /\ row.content # NoData
    THEN [rec EXCEPT !.lookup = outcome, !.held = row, !.pc = "returned",
                     !.result = row.content]
    ELSE seedTier([rec EXCEPT !.lookup = outcome, !.held = row])

\* A: the answer of the store lookup; row is what the table holds under dbId
storeTier(rec, outcome, row) ==
    IF outcome = "data" /\ row # NoRow /\ row.content # NoData
    THEN [rec EXCEPT !.lookup = outcome, !.held = row, !.pc = "returned",
                     !.result = row.content]
    ELSE seedTier([rec EXCEPT !.lookup = outcome, !.held = row])

\* throw new Error("Termo nao encontrado."), the one error of getTermData
NotFoundError == "Termo nao encontrado."

\* a generation tier whose catch rethrows an error of its own
genTierDistinct(rec, answer, isConfigured) ==
    IF answer \in GenFailures
    THEN [rec EXCEPT !.gen = answer.kind, !.pc = "thrown",
                     !.error = IF answer.kind = "empty" THEN NotFoundError
                               ELSE "GenerationFailed"]
    ELSE LET data == postProcess(answer.data, rec.dbId)
         IN [rec EXCEPT !.gen = "json", !.payload = answer.data,
                        !.pc = "returned", !.result = data,
                        !.inserts = IF isConfigured THEN @ + 1 ELSE @,
                        !.insertKey = IF isConfigured
                                      THEN insertRow(data, rec.dbId).id ELSE @]

\* a generation tier that awaits the insert before it returns
genTierAwaitsInsert(rec, answer, isConfigured) ==
    IF answer \in GenFailures
    THEN [rec EXCEPT !.gen = answer.kind, !.pc = "thrown",
                     !.error = NotFoundError]
    ELSE LET data == postProcess(answer.data, rec.dbId)
         IN [rec EXCEPT !.gen = "json", !.payload = answer.data,
                        !.pc = IF isConfigured THEN "saving" ELSE "returned",
                        !.result = IF isConfigured THEN @ ELSE data,
                        !.inserts = IF isConfigured THEN @ + 1 ELSE @,
                        !.insertKey = IF isConfigured
                                      THEN insertRow(data, rec.dbId).id ELSE @]

\* a generation tier that asks the backend once more after a failure
genTierRetry(rec, answer, isConfigured) ==
    IF answer \in GenFailures /\ rec.genCalls < 2
    THEN [rec EXCEPT !.gen = answer.kind, !.genCalls = @ + 1]
    ELSE IF answer \in GenFailures
    THEN [rec EXCEPT !.gen = answer.kind, !.pc = "thrown",
                     !.error = NotFoundError]
    ELSE LET data == postProcess(answer.data, rec.dbId)
         IN [rec EXCEPT !.gen = "json", !.payload = answer.data,
                        !.pc = "returned", !.result = data,
                        !.inserts = IF isConfigured THEN @ + 1 ELSE @,
                        !.insertKey = IF isConfigured
                                      THEN insertRow(data, rec.dbId).id ELSE @]

\* C and D: the answer of the generation backend
genTier(rec, answer, isConfigured) ==
    IF answer \in GenFailures
    THEN [rec EXCEPT !.gen = answer.kind, !.pc = "thrown",
                     !.error = NotFoundError]
    ELSE LET data == postProcess(answer.data, rec.dbId)
         IN [rec EXCEPT !.gen = "json", !.payload = answer.data,
                        !.pc = "returned", !.result = data,
                        !.inserts = IF isConfigured THEN @ + 1 ELSE @,
                        !.insertKey = IF isConfigured
                                      THEN insertRow(data, rec.dbId).id ELSE @]

\* the inserts in flight after the answer of the generation backend
genInsert(rec, answer, isConfigured) ==
    IF answer \in GenFailures \/ ~isConfigured
    THEN <<>>
    ELSE << insertRow(postProcess(answer.data, rec.dbId), rec.dbId) >>

Finished(c) == calls[c].pc \in {"idle", "returned", "thrown"}

\* the term page calls getTermData(termId)
Call(termId) ==
    /\ Finished("ui")
    /\ calls' = [calls EXCEPT !["ui"] = enter(termId, isSupabaseConfigured)]
    /\ UNCHANGED <<normVars, defVars, glossVars, supabaseUrl, supabaseKey, store, pending, seedPc, seedCustom, seedList,
                   seedIdx, seedLog, seedAttempts>>

\* a lookup that also sees the rows of inserts still in flight
visibleRowWithPending(table, inflight, id) ==
    IF table[id] = NoRow /\ \E i \in 1..Len(inflight) : inflight[i].id = id
    THEN inflight[CHOOSE i \in 1..Len(inflight) : inflight[i].id = id]
    ELSE table[id]

\* .from('terms').select('*').eq('id', dbId).single(): the row of the table
visibleRow(table, inflight, id) == table[id]

\* the store answers the lookup of caller c
LookupReply(c, outcome) ==
    /\ calls[c].pc = "lookup"
    /\ calls' = [calls EXCEPT ![c] = storeTier(@, outcome, visibleRow(store, pending, @.dbId))]
    /\ UNCHANGED <<normVars, defVars, glossVars, supabaseUrl, supabaseKey, store, pending, seedPc, seedCustom, seedList,
                   seedIdx, seedLog, seedAttempts>>

\* the generation backend answers caller c
GenReply(c, answer) ==
    /\ calls[c].pc = "gen"
    /\ Len(pending) + Len(genInsert(calls[c], answer, isSupabaseConfigured)) <= MaxPending
    /\ calls' = [calls EXCEPT ![c] = genTier(@, answer, isSupabaseConfigured)]
    /\ pending' = pending \o genInsert(calls[c], answer, isSupabaseConfigured)
    /\ UNCHANGED <<normVars, defVars, glossVars, supabaseUrl, supabaseKey, store, seedPc, seedCustom, seedList,
                   seedIdx, seedLog, seedAttempts>>

RemoveAt(s, i) == SubSeq(s, 1, i - 1) \o SubSeq(s, i + 1, Len(s))

\* a write-back that replaces the row already stored under the id
writeOpUpsert == "upsert"

\* supabase.from('terms').insert(...): the one kind of write getTermData issues
writeOp == "insert"

\* the table after a write: under the primary key id an insert admits a new
\* row only, an upsert replaces the row
landed(table, row, ok) ==
    IF ok /\ (writeOp = "upsert" \/ table[row.id] = NoRow)
    THEN [table EXCEPT ![row.id] = row]
    ELSE table

\* the store answers an insert (ok: it was carried out; otherwise an error)
InsertReply(i, ok) ==
    /\ i \in 1..Len(pending)
    /\ store' = landed(store, pending[i], ok)
    /\ pending' = RemoveAt(pending, i)
    /\ UNCHANGED <<normVars, defVars, glossVars, supabaseUrl, supabaseKey, calls, seedPc, seedCustom, seedList,
                   seedIdx, seedLog, seedAttempts>>

(***************************************************************************)
(* seedDatabase                                                            *)
(***************************************************************************)
defaultList ==
    << <<"K","u","b","e","r","n","e","t","e","s">>,
       <<"D","o","c","k","e","r">>,
       <<"C","I","/","C","D">>,
       <<"M","i","c","r","o","s","e","r","v","i","c","e","s">>,
       <<"S","e","r","v","e","r","l","e","s","s">>,
       <<"R","e","a","c","t">>,
       <<"N","o","d","e",".","j","s">>,
       <<"P","y","t","h","o","n">>,
       <<"M","a","c","h","i","n","e"," ","L","e","a","r","n","i","n","g">>,
       <<"L","L","M">>,
       <<"C","y","b","e","r","s","e","c","u","r","i","t","y">>,
       <<"Z","e","r","o"," ","T","r","u","s","t">>,
       <<"F","i","r","e","w","a","l","l">>,
       <<"V","P","N">>,
       <<"E","n","c","r","y","p","t","i","o","n">>,
       <<"A","g","i","l","e">>,
       <<"S","c","r","u","m">>,
       <<"K","a","n","b","a","n">>,
       <<"M","V","P">>,
       <<"P","r","o","d","u","c","t"," ","M","a","r","k","e","t"," ","F","i","t">> >>

\* customList as passed: given = FALSE is an omitted argument
NoList == [given |-> FALSE, list |-> <<>>]
Given(list) == [given |-> TRUE, list |-> list]

\* a selection that walks the list as given, the empty one included
listToProcessAsGiven(customList) == customList.list

\* customList && customList.length > 0 ? customList : defaultList
listToProcess(customList) ==
    IF customList.given /\ Len(customList.list) > 0 THEN customList.list ELSE defaultList

\* the onProgress messages
Msg(kind, term, n) == [k |-> kind, t |-> term, n |-> n]
MsgError == Msg("error", <<>>, 0)
MsgStart(n) == Msg("start", <<>>, n)
MsgWarn == Msg("warn", <<>>, 0)
MsgProc(term) == Msg("proc", term, 0)
MsgOk(term) == Msg("ok", term, 0)
MsgFail(term) == Msg("fail", term, 0)
MsgFinal == Msg("final", <<>>, 0)

\* if (!term.trim()) continue
isBlank(term) == trim(term) = <<>>

\* the first position after i whose term the loop body processes
nextTerm(list, i) ==
    IF \E j \in (i + 1)..Len(list) : ~isBlank(list[j])
    THEN CHOOSE j \in (i + 1)..Len(list) :
            /\ ~isBlank(list[j])
            /\ \A m \in (i + 1)..(j - 1) : isBlank(list[m])
    ELSE Len(list) + 1

\* a seeder whose catch is missing: the first failure ends the walk
afterGetNoCatch(callPc) == IF callPc = "thrown" THEN "failed" ELSE "delay"

\* try { await getTermData(term) } catch (e) {}: the walk goes on either way
afterGet(callPc) == "delay"

\* a loop that calls getTermData without announcing the term first
SeedAdvanceSilent(list, i, log) ==
    LET j == nextTerm(list, i)
    IN IF j > Len(list)
       THEN /\ seedPc' = "done"
            /\ seedIdx' = j
            /\ seedLog' = Append(log, MsgFinal)
            /\ UNCHANGED <<calls, seedAttempts>>
       ELSE /\ seedPc' = "get"
            /\ seedIdx' = j
            /\ seedLog' = log
            /\ seedAttempts' = Append(seedAttempts, list[j])
            /\ calls' = [calls EXCEPT !["seeder"] = enter(list[j], isSupabaseConfigured)]

\* the loop from position i to its next await, or to the end of seedDatabase
SeedAdvance(list, i, log) ==
    LET j == nextTerm(list, i)
    IN IF j > Len(list)
       THEN /\ seedPc' = "done"
            /\ seedIdx' = j
            /\ seedLog' = Append(log, MsgFinal)
            /\ UNCHANGED <<calls, seedAttempts>>
       ELSE /\ seedPc' = "get"
            /\ seedIdx' = j
            /\ seedLog' = Append(log, MsgProc(list[j]))
            /\ seedAttempts' = Append(seedAttempts, list[j])
            /\ calls' = [calls EXCEPT !["seeder"] = enter(list[j], isSupabaseConfigured)]

\* a seeder that walks the list without checking the configuration
SeedStartUnchecked(customList) ==
    /\ seedPc = "idle"
    /\ seedCustom' = customList
    /\ seedList' = listToProcess(customList)
    /\ SeedAdvance(listToProcess(customList), 0,
                   <<MsgStart(Len(listToProcess(customList))), MsgWarn>>)
    /\ UNCHANGED <<normVars, defVars, glossVars, supabaseUrl, supabaseKey, store, pending>>

\* seedDatabase(onProgress, customList) up to its first await
SeedStart(customList) ==
    /\ seedPc = "idle"
    /\ seedCustom' = customList
    /\ IF ~isSupabaseConfigured
       THEN /\ seedLog' = <<MsgError>>
            /\ seedPc' = "done"
            /\ UNCHANGED <<seedList, seedIdx, seedAttempts, calls>>
       ELSE /\ seedList' = listToProcess(customList)
            /\ SeedAdvance(listToProcess(customList), 0,
                           <<MsgStart(Len(listToProcess(customList))), MsgWarn>>)
    /\ UNCHANGED <<normVars, defVars, glossVars, supabaseUrl, supabaseKey, store, pending>>

\* getTermData has settled: the outcome message, then the delay is started
SeedResume ==
    /\ seedPc = "get"
    /\ Finished("seeder")
    /\ seedLog' = Append(seedLog, IF calls["seeder"].pc = "returned"
                                  THEN MsgOk(seedList[seedIdx])
                                  ELSE MsgFail(seedList[seedIdx]))
    /\ seedPc' = afterGet(calls["seeder"].pc)
    /\ UNCHANGED <<normVars, defVars, glossVars, supabaseUrl, supabaseKey, store, pending, calls, seedCustom, seedList,
                   seedIdx, seedAttempts>>

\* a loop that awaits neither getTermData nor the timer before going on
SeedTimerEager ==
    /\ seedPc \in {"get", "delay"}
    /\ SeedAdvance(seedList, seedIdx, seedLog)
    /\ UNCHANGED <<normVars, defVars, glossVars, supabaseUrl, supabaseKey, store, pending, seedCustom, seedList>>

\* the 1500 ms timer fires: the next iteration, or the completion message
SeedTimer ==
    /\ seedPc = "delay"
    /\ SeedAdvance(seedList, seedIdx, seedLog)
    /\ UNCHANGED <<normVars, defVars, glossVars, supabaseUrl, supabaseKey, store, pending, seedCustom, seedList>>

(***************************************************************************)
(* The system                                                              *)
(***************************************************************************)
\* longest customList handed to the seeder
MaxSeedLen == 3

SeedTerms == {T_API, T_CICD, Blank}
SeedLists == { Given(l) : l \in UNION { [1..k -> SeedTerms] : k \in 1..MaxSeedLen } }

\* the term page resolves terms; the seeder is not run
NextResolve ==
    \/ \E t \in RawTerms : Call(t)
    \/ \E c \in Callers, o \in LookupOutcomes : LookupReply(c, o)
    \/ \E c \in Callers, a \in GenAnswers : GenReply(c, a)
    \/ \E i \in 1..MaxPending, ok \in BOOLEAN : InsertReply(i, ok)

SpecResolve == Init /\ [][NextResolve]_vars

\* the seeder walks a list; the term page is not used meanwhile
NextSeed ==
    \/ \E l \in SeedLists : SeedStart(l)
    \/ SeedResume
    \/ SeedTimer
    \/ \E c \in Callers, o \in LookupOutcomes : LookupReply(c, o)
    \/ \E c \in Callers, a \in GenAnswers : GenReply(c, a)
    \/ \E i \in 1..MaxPending, ok \in BOOLEAN : InsertReply(i, ok)

SpecSeed == Init /\ [][NextSeed]_vars

\* the term page resolves terms while the seeder walks a list of one term
BothTerms == {T_API, T_CICD}
BothLists == {Given(<<T_API>>), Given(<<T_CICD>>)}

NextBoth ==
    \/ \E t \in BothTerms : Call(t)
    \/ \E l \in BothLists : SeedStart(l)
    \/ SeedResume
    \/ SeedTimer
    \/ \E c \in Callers, o \in LookupOutcomes : LookupReply(c, o)
    \/ \E c \in Callers, a \in GenAnswers : GenReply(c, a)
    \/ \E i \in 1..MaxPending, ok \in BOOLEAN : InsertReply(i, ok)

\* the table starts with rows under the ids of BothTerms only
InitBoth ==
    /\ Init
    /\ \A id \in Ids \ { normalizeId(t) : t \in BothTerms } : store[id] = NoRow

SpecBoth == InitBoth /\ [][NextBoth]_vars

\* the seeder is run without a list, with an empty list, or with a list that
\* has blank entries; the table, which has a place for every id of the default
\* list, is empty and refuses every insert, and the backend answers every
\* request with the complete payload
WalkLists == {NoList, Given(<<>>), Given(<<Blank>>), Given(<<Blank, T_CICD, Blank, Blank, T_API>>)}
WalkIds == Ids \cup { normalizeId(defaultList[i]) : i \in 1..Len(defaultList) }
WalkAnswers == {Answer("json", PayFull)}

InitWalk ==
    /\ supabaseUrl \in BOOLEAN
    /\ supabaseKey \in BOOLEAN
    /\ store = [id \in WalkIds |-> NoRow]
    /\ pending = <<>>
    /\ calls = [c \in Callers |-> IdleCall]
    /\ seedPc = "idle"
    /\ seedCustom = NoList
    /\ seedList = <<>>
    /\ seedIdx = 0
    /\ seedLog = <<>>
    /\ seedAttempts = <<>>
    /\ NormIdle
    /\ DefIdle
    /\ GlossIdle

NextWalk ==
    \/ \E l \in WalkLists : SeedStart(l)
    \/ SeedResume
    \/ SeedTimer
    \/ \E c \in Callers, o \in LookupOutcomes : LookupReply(c, o)
    \/ \E c \in Callers, a \in WalkAnswers : GenReply(c, a)
    \/ \E i \in 1..MaxPending : InsertReply(i, FALSE)

SpecWalk == InitWalk /\ [][NextWalk]_vars

(***************************************************************************)
(* The Glossary page                                                       *)
(***************************************************************************)
\* String.prototype.toUpperCase, one character
toUpperChar(c) ==
    IF \E i \in 1..Len(Lowers) : Lowers[i] = c
    THEN Uppers[CHOOSE i \in 1..Len(Lowers) : Lowers[i] = c]
    ELSE c

\* String.prototype.includes
includes(text, part) ==
    \E i \in 0..(Len(text) - Len(part)) : SubSeq(text, i + 1, i + Len(part)) = part

\* x || ''
orEmpty(x) == IF truthy(x) THEN x.v ELSE <<>>

\* the predicate of terms.filter(...) in filteredTerms
matches(item, cat, search, letter) ==
    LET catMatch == \/ cat = "Todos"
                    \/ item.category = cat
                    \/ (cat = "Infraestrutura" /\ item.category = "DevOps")
        searchLower == toLowerCase(search)
        termLower == toLowerCase(orEmpty(item.term))
        defLower == toLowerCase(orEmpty(item.definition))
        searchMatch == \/ search = <<>>
                       \/ includes(termLower, searchLower)
                       \/ includes(defLower, searchLower)
        firstChar == IF orEmpty(item.term) = <<>> THEN <<>>
                     ELSE <<toUpperChar(orEmpty(item.term)[1])>>
        isAlpha == firstChar # <<>> /\ firstChar[1] \in Range(Uppers)
        letterMatch == IF ~truthy(letter) THEN TRUE
                       ELSE IF letter = Str(<<"#">>) THEN ~isAlpha
                       ELSE firstChar = letter.v
    IN IF search # <<>> THEN catMatch /\ searchMatch ELSE catMatch /\ letterMatch

\* filteredTerms.length (the sort of line 97 does not change it)
filteredLength(list, cat, search, letter) ==
    Cardinality({ i \in 1..Len(list) : matches(list[i], cat, search, letter) })

\* a search handler that leaves the active letter alone
letterAfterSearchKept(value, letter) == letter

\* if (e.target.value) setActiveLetter(null)
letterAfterSearch(value, letter) == IF value # <<>> THEN Null ELSE letter

\* a load that shows whatever list the query returned, the empty one included
termsAfterQueryAlways(current, answer) ==
    IF answer.kind = "data" THEN answer.data ELSE current

\* if (data && data.length > 0) setTerms(data)
termsAfterQuery(current, answer) ==
    IF answer.kind = "data" /\ Len(answer.data) > 0 THEN answer.data ELSE current

\* the rows the 'terms' table may answer the query with
RowZero == Item(<<"z","e","r","o","-","t","r","u","s","t">>, <<"Z","e","r","o"," ","T","r","u","s","t">>, "Segurança", <<"M","o","d","e","l","o"," ","q","u","e"," ","n","u","n","c","a"," ","c","o","n","f","i","a",".">>)
RowBare == [Item(<<"4","2">>, <<"4","2">>, "Geral", <<>>) EXCEPT !.definition = Null]
RowLists == { <<>>, <<RowZero>>, <<RowBare, RowZero>> }
QueryAnswers == { Fetched("data", rows) : rows \in RowLists } \cup
                { Fetched("error", <<>>), Fetched("throw", <<>>) }

\* what the user may type into the search input
SearchValues == { <<>>, <<"a">>, <<"A","P","I">>, <<"z","z">> }

\* useEffect on mount: fetchTerms up to its first await, or to its return
Mount ==
    /\ gPc = "off"
    /\ IF ~isSupabaseConfigured
       THEN loading' = FALSE /\ gPc' = "done"
       ELSE loading' = loading /\ gPc' = "query"
    /\ UNCHANGED <<sysVars, normVars, defVars, activeCat, searchTerm, activeLetter, terms,
                   fetched, lastEvent>>

\* the query of fetchTerms is answered: lines 58-65
QueryReply(answer) ==
    /\ gPc = "query"
    /\ fetched' = answer
    /\ terms' = termsAfterQuery(terms, answer)
    /\ loading' = FALSE
    /\ gPc' = "done"
    /\ UNCHANGED <<sysVars, normVars, defVars, activeCat, searchTerm, activeLetter, lastEvent>>

\* handleSearchChange(e) with e.target.value = value
handleSearchChange(value) ==
    /\ gPc # "off"
    /\ searchTerm' = value
    /\ activeLetter' = letterAfterSearch(value, activeLetter)
    /\ lastEvent' = Event("search", value)
    /\ UNCHANGED <<sysVars, normVars, defVars, activeCat, terms, loading, gPc, fetched>>

\* handleLetterClick(char)
handleLetterClick(char) ==
    /\ gPc # "off"
    /\ IF activeLetter = Str(<<char>>)
       THEN activeLetter' = Null /\ searchTerm' = searchTerm
       ELSE activeLetter' = Str(<<char>>) /\ searchTerm' = <<>>
    /\ lastEvent' = Event("letter", <<char>>)
    /\ UNCHANGED <<sysVars, normVars, defVars, activeCat, terms, loading, gPc, fetched>>

\* onClick={() => setActiveCat(cat)}
setActiveCat(cat) ==
    /\ gPc # "off"
    /\ activeCat' = cat
    /\ lastEvent' = Event("category", <<cat>>)
    /\ UNCHANGED <<sysVars, normVars, defVars, searchTerm, activeLetter, terms, loading, gPc,
                   fetched>>

\* 'Limpar todos os filtros', shown when nothing is loading and nothing matches
clearFilters ==
    /\ gPc # "off"
    /\ ~loading
    /\ filteredLength(terms, activeCat, searchTerm, activeLetter) = 0
    /\ searchTerm' = <<>>
    /\ activeLetter' = Null
    /\ activeCat' = "Todos"
    /\ lastEvent' = Event("clear", <<>>)
    /\ UNCHANGED <<sysVars, normVars, defVars, terms, loading, gPc, fetched>>

InitGloss ==
    /\ supabaseUrl \in BOOLEAN
    /\ supabaseKey \in BOOLEAN
    /\ store = [i \in Ids |-> NoRow]
    /\ pending = <<>>
    /\ calls = [c \in Callers |-> IdleCall]
    /\ seedPc = "idle"
    /\ seedCustom = NoList
    /\ seedList = <<>>
    /\ seedIdx = 0
    /\ seedLog = <<>>
    /\ seedAttempts = <<>>
    /\ NormIdle
    /\ DefIdle
    /\ GlossIdle

NextGloss ==
    \/ Mount
    \/ \E answer \in QueryAnswers : QueryReply(answer)
    \/ \E value \in SearchValues : handleSearchChange(value)
    \/ \E char \in Range(alphabet) : handleLetterClick(char)
    \/ \E cat \in Range(categories) : setActiveCat(cat)
    \/ clearFilters

SpecGloss == InitGloss /\ [][NextGloss]_vars

(***************************************************************************)
(* The string functions on their own                                       *)
(***************************************************************************)
\* the system at rest, store not configured
SysIdle ==
    /\ supabaseUrl = FALSE
    /\ supabaseKey = FALSE
    /\ store = [i \in Ids |-> NoRow]
    /\ pending = <<>>
    /\ calls = [c \in Callers |-> IdleCall]
    /\ seedPc = "idle"
    /\ seedCustom = NoList
    /\ seedList = <<>>
    /\ seedIdx = 0
    /\ seedLog = <<>>
    /\ seedAttempts = <<>>

InitNorm ==
    /\ SysIdle
    /\ DefIdle
    /\ GlossIdle
    /\ nPc = "in"
    /\ nIn \in NormInputs
    /\ nOut = <<>>
    /\ nOut2 = <<>>

\* normalizeId(text)
Normalize ==
    /\ nPc = "in"
    /\ nOut' = normalizeId(nIn)
    /\ nPc' = "once"
    /\ UNCHANGED <<sysVars, defVars, glossVars, nIn, nOut2>>

\* normalizeId applied to its own output
Renormalize ==
    /\ nPc = "once"
    /\ nOut2' = normalizeId(nOut)
    /\ nPc' = "twice"
    /\ UNCHANGED <<sysVars, defVars, glossVars, nIn, nOut>>

NextNorm ==
    \/ Normalize
    \/ Renormalize

SpecNorm == InitNorm /\ [][NextNorm]_vars

(***************************************************************************)
(* The defaulting of a generated payload on its own                        *)
(***************************************************************************)
Items(n) == { [i \in 1..k |-> "item"] : k \in 0..n }

\* what JSON.parse may yield for a field that should be a sequence
SeqValues == {Undef, Null, Str(<<"not a list">>)} \cup { Arr(s) : s \in Items(MaxItems) }

AllPayloads ==
    [id : {Undef, Str(<<"x">>)},
     term : {Undef, Str(<<"Term">>)},
     fullTerm : {Undef, Null, Str(<<>>), Str(<<"Full Term">>)},
     definition : {Str(<<"definition">>)},
     examples : SeqValues,
     analogies : SeqValues,
     relatedTerms : {Undef, Arr(<<>>), Arr(<<"item">>)},
     practicalUsage : {Undef, Null, Obj("Na daily", "frase")}]

InitDefaults ==
    /\ SysIdle
    /\ NormIdle
    /\ GlossIdle
    /\ dPc = "in"
    /\ dIn \in AllPayloads
    /\ dOut = NoData

\* lines 126-135 of getTermData on the parsed payload dIn
ApplyDefaults(dbId) ==
    /\ dPc = "in"
    /\ dOut' = postProcess(dIn, dbId)
    /\ dPc' = "out"
    /\ UNCHANGED <<sysVars, normVars, glossVars, dIn>>

NextDefaults == \E id \in Ids : ApplyDefaults(id)

SpecDefaults == InitDefaults /\ [][NextDefaults]_vars

(***************************************************************************)
(* Properties of normalizeId (SpecNorm)                                    *)
(***************************************************************************)
\* ^[a-z0-9]+(-[a-z0-9]+)*$
MatchesSlug(s) ==
    /\ Len(s) > 0
    /\ \A i \in 1..Len(s) : IsAlnum(s[i]) \/ s[i] = "-"
    /\ s[1] # "-"
    /\ s[Len(s)] # "-"
    /\ \A i \in 1..(Len(s) - 1) : ~(s[i] = "-" /\ s[i + 1] = "-")

\* C2: the output of normalizeId is empty or matches ^[a-z0-9]+(-[a-z0-9]+)*$,
\* so it neither starts nor ends with a hyphen and has no two hyphens in a row.
C2_OutputIsSlug ==
    nPc \in {"once", "twice"} => (nOut = <<>> \/ MatchesSlug(nOut))

\* C3: normalizeId is idempotent: normalizeId(normalizeId(x)) = normalizeId(x).
C3_Idempotent ==
    nPc = "twice" => nOut2 = nOut

\* C3 witness: an input that normalizeId changed has been normalized twice
C3_Witness ==
    /\ nPc = "twice"
    /\ nIn = <<"a", " ", "/", "B">>
    /\ nOut = <<"a", "-", "b">>
    /\ nOut2 = nOut

\* the reference: over the lower-cased, trimmed text, every maximal run of
\* characters outside [a-z0-9] becomes one hyphen
RECURSIVE replaceRuns(_, _)
replaceRuns(s, inRun) ==
    IF s = <<>> THEN <<>>
    ELSE IF IsAlnum(Head(s)) THEN <<Head(s)>> \o replaceRuns(Tail(s), FALSE)
    ELSE IF inRun THEN replaceRuns(Tail(s), TRUE)
    ELSE <<"-">> \o replaceRuns(Tail(s), TRUE)

referenceSlug(text) == replaceRuns(trim(toLowerCase(text)), FALSE)

\* C4: normalizeId(x) is the reference result (lower-case, trim, every maximal
\* run of characters outside [a-z0-9] replaced by one hyphen); "React JS" gives
\* "react-js" and "CI/CD" gives "ci-cd".
C4_MatchesReference ==
    nPc \in {"once", "twice"} =>
        /\ nOut = referenceSlug(nIn)
        /\ nIn = ReactJS => nOut = <<"r","e","a","c","t","-","j","s">>
        /\ nIn = CICD => nOut = <<"c","i","-","c","d">>

\* C4 witness: a run of two characters outside the class, one of them a
\* hyphen, between two letters has become a single hyphen
C4_Witness ==
    /\ nPc = "once"
    /\ nIn = <<"B", "/", "-", "a">>
    /\ nOut = <<"b", "-", "a">>

(***************************************************************************)
(* Properties of the defaulting (SpecDefaults)                             *)
(***************************************************************************)
SeqFields == {"examples", "analogies", "relatedTerms"}

\* what C7 says of the fields other than fullTerm
DefaultsOfTheRest ==
    /\ \A f \in SeqFields :
          /\ ~isArray(dIn[f]) => dOut[f] = Arr(<<>>)
          /\ isArray(dIn[f]) => dOut[f] = dIn[f]
    /\ dIn.practicalUsage = Undef => dOut.practicalUsage = Placeholder
    /\ dIn.practicalUsage.k = "object" => dOut.practicalUsage = dIn.practicalUsage
    /\ dOut.term = dIn.term
    /\ dOut.definition = dIn.definition

\* C7 as stated: a sequence field that is absent or no sequence becomes the
\* empty sequence, an absent fullTerm becomes term, an absent practicalUsage
\* becomes the placeholder, and every field that is present and well-formed
\* (for fullTerm: any string) is returned unchanged.
C7_AsStated ==
    dPc = "out" =>
        /\ DefaultsOfTheRest
        /\ dIn.fullTerm = Undef => dOut.fullTerm = dOut.term
        /\ dIn.fullTerm.k = "string" => dOut.fullTerm = dIn.fullTerm

\* C7 amended: as stated, except that fullTerm becomes term when it is absent,
\* null or the empty string, and is returned unchanged when it is a non-empty
\* string.
C7_Defaulting ==
    dPc = "out" =>
        /\ DefaultsOfTheRest
        /\ ~truthy(dIn.fullTerm) => dOut.fullTerm = dOut.term
        /\ (dIn.fullTerm.k = "string" /\ dIn.fullTerm.v # <<>>) =>
              dOut.fullTerm = dIn.fullTerm

\* C7 witness: a payload that lacks examples, fullTerm and practicalUsage, has
\* a malformed analogies and a well-formed relatedTerms has been post-processed
C7_Witness ==
    /\ dPc = "out"
    /\ dIn.examples = Undef /\ dOut.examples = Arr(<<>>)
    /\ dIn.analogies = Str(<<"not a list">>) /\ dOut.analogies = Arr(<<>>)
    /\ dIn.relatedTerms = Arr(<<"item">>) /\ dOut.relatedTerms = Arr(<<"item">>)
    /\ dIn.fullTerm = Undef /\ dIn.term = Str(<<"Term">>) /\ dOut.fullTerm = Str(<<"Term">>)
    /\ dIn.practicalUsage = Undef /\ dOut.practicalUsage = Placeholder

(***************************************************************************)
(* Properties of getTermData (SpecResolve)                                 *)
(***************************************************************************)
\* the activation of caller c has returned or thrown
Settled(c) == calls[c].pc \in {"returned", "thrown"}

\* the table held a record under the id of c's lookup when the store answered
HeldRecord(c) == calls[c].lookups = 1 /\ calls[c].lookup # "none" /\ calls[c].held.content # NoData

\* C1 as stated: whenever the store is configured and holds a record for
\* normalizeId(rawTerm), getTermData(rawTerm) returns exactly that record.
C1_AsStated ==
    \A c \in Callers :
        (isSupabaseConfigured /\ Settled(c) /\ HeldRecord(c)) =>
            /\ calls[c].pc = "returned"
            /\ calls[c].result = calls[c].held.content

\* C1 amended: whenever the store is configured, holds a record for
\* normalizeId(rawTerm) and answers the lookup with it (the lookup neither
\* throws nor yields an error result), getTermData(rawTerm) returns exactly
\* that record, and neither the seed set nor the generator is consulted.
C1_TierPrecedence ==
    \A c \in Callers :
        (isSupabaseConfigured /\ HeldRecord(c) /\ calls[c].lookup = "data") =>
            /\ calls[c].pc = "returned"
            /\ calls[c].held.id = normalizeId(calls[c].termId)
            /\ calls[c].result = calls[c].held.content
            /\ ~calls[c].seedRead
            /\ calls[c].genCalls = 0
            /\ calls[c].inserts = 0

\* C1 witness: "API" is a seed term, the store holds another record under
\* "api", and the call has returned the stored one
C1_Witness ==
    /\ calls["ui"].termId = T_API
    /\ hasSeed(calls["ui"].rawId)
    /\ calls["ui"].pc = "returned"
    /\ calls["ui"].lookup = "data"
    /\ calls["ui"].result = StoredRow(K_api).content
    /\ calls["ui"].result # localDatabase[K_api]

\* C5: with the store not configured and the lower-cased, trimmed term a key
\* of the seed set, getTermData returns the seed record, calls the generation
\* backend not at all and issues neither a store lookup nor an insert.
C5_SeedFallback ==
    \A c \in Callers :
        (~isSupabaseConfigured /\ calls[c].pc # "idle"
            /\ trim(toLowerCase(calls[c].termId)) \in DOMAIN localDatabase) =>
            /\ calls[c].pc = "returned"
            /\ calls[c].result = localDatabase[trim(toLowerCase(calls[c].termId))]
            /\ calls[c].genCalls = 0
            /\ calls[c].lookups = 0
            /\ calls[c].inserts = 0
            /\ pending = <<>>

\* C5 witness: " aPI " has been resolved from the seed set, store unconfigured
C5_Witness ==
    /\ ~isSupabaseConfigured
    /\ calls["ui"].termId = T_API_SP
    /\ calls["ui"].pc = "returned"
    /\ calls["ui"].result = localDatabase[K_api]

\* C6: a record returned from the generation tier has id normalizeId(rawInput)
\* whatever id the backend sent, and the insert is keyed by the same id.
C6_GeneratedId ==
    /\ \A c \in Callers :
          (calls[c].pc = "returned" /\ calls[c].gen = "json") =>
              /\ calls[c].result.id = Str(normalizeId(calls[c].termId))
              /\ calls[c].inserts = 1 => calls[c].insertKey = normalizeId(calls[c].termId)
    /\ \A i \in 1..Len(pending) : pending[i].content.id = Str(pending[i].id)

\* C6 witness: the backend sent the id "x" for "CI/CD"; the record returned and
\* the insert in flight both carry "ci-cd"
C6_Witness ==
    /\ calls["ui"].termId = T_CICD
    /\ calls["ui"].pc = "returned"
    /\ calls["ui"].payload = PayFull
    /\ calls["ui"].result.id = Str(<<"c","i","-","c","d">>)
    /\ Len(pending) = 1
    /\ pending[1].id = <<"c","i","-","c","d">>

\* C10: a store lookup that throws or yields an error result is never passed
\* on to the caller: the call goes on to the seed tier and then the generation
\* tier, and its outcome is the one those tiers produce.
C10_StoreFailureIsSoft ==
    \A c \in Callers :
        calls[c].lookup \in {"error", "throw"} =>
            /\ calls[c].seedRead
            /\ calls[c].error # "store"
            /\ hasSeed(calls[c].rawId) =>
                  /\ calls[c].pc = "returned"
                  /\ calls[c].result = seedValue(calls[c].rawId)
                  /\ calls[c].genCalls = 0
            /\ ~hasSeed(calls[c].rawId) =>
                  /\ calls[c].genCalls = 1
                  /\ calls[c].pc \in {"gen", "returned", "thrown"}
                  /\ calls[c].pc = "returned" =>
                        /\ calls[c].gen = "json"
                        /\ calls[c].result = postProcess(calls[c].payload, calls[c].dbId)
                  /\ calls[c].pc = "thrown" =>
                        /\ calls[c].gen \in {"throw", "empty", "badjson"}
                        /\ calls[c].error = "Termo nao encontrado."

\* C10 witness: the lookup for "CI/CD" threw although the table holds a record,
\* and the call has returned a generated record
C10_Witness ==
    /\ calls["ui"].termId = T_CICD
    /\ calls["ui"].lookup = "throw"
    /\ calls["ui"].held.content # NoData
    /\ calls["ui"].pc = "returned"
    /\ calls["ui"].gen = "json"

(***************************************************************************)
(* Properties of seedDatabase (SpecSeed)                                   *)
(***************************************************************************)
\* the terms of a list that are not blank, in list order
RECURSIVE NonBlank(_)
NonBlank(list) ==
    IF list = <<>> THEN <<>>
    ELSE IF isBlank(Head(list)) THEN NonBlank(Tail(list))
    ELSE <<Head(list)>> \o NonBlank(Tail(list))

IsPrefix(a, b) == Len(a) <= Len(b) /\ SubSeq(b, 1, Len(a)) = a

CountKind(log, kind) == Cardinality({ i \in 1..Len(log) : log[i].k = kind })

\* C8: with the store configured, whatever the list and whichever terms fail,
\* the seeder hands every non-blank term to getTermData in list order, reports
\* each failure through the callback, ends with the completion message, and
\* never fails itself because a term failed.
C8_SeederIsolation ==
    isSupabaseConfigured =>
        /\ seedPc \in {"idle", "get", "delay", "done"}
        /\ IsPrefix(seedAttempts, NonBlank(seedList))
        /\ seedPc = "delay" =>
              seedLog[Len(seedLog)] =
                  IF calls["seeder"].pc = "thrown"
                  THEN MsgFail(seedAttempts[Len(seedAttempts)])
                  ELSE MsgOk(seedAttempts[Len(seedAttempts)])
        /\ seedPc = "done" =>
              /\ seedAttempts = NonBlank(seedList)
              /\ seedLog[Len(seedLog)] = MsgFinal
              /\ CountKind(seedLog, "proc") = Len(seedAttempts)
              /\ CountKind(seedLog, "ok") + CountKind(seedLog, "fail") = Len(seedAttempts)

\* C8 witness: of three terms the second failed, the third was still handed
\* to getTermData, and the walk has reported completion
C8_Witness ==
    /\ seedPc = "done"
    /\ seedList = <<T_API, T_CICD, T_API>>
    /\ seedAttempts = <<T_API, T_CICD, T_API>>
    /\ seedLog = <<MsgStart(3), MsgWarn,
                   MsgProc(T_API), MsgOk(T_API),
                   MsgProc(T_CICD), MsgFail(T_CICD),
                   MsgProc(T_API), MsgOk(T_API),
                   MsgFinal>>

\* C9: with the store not configured, seedDatabase invokes the callback exactly
\* once, with the error message, calls getTermData not at all, reaches neither
\* the store nor the generation backend, and returns.
C9_SeederPrecondition ==
    ~isSupabaseConfigured =>
        /\ seedPc \in {"idle", "done"}
        /\ seedAttempts = <<>>
        /\ calls["seeder"] = IdleCall
        /\ pending = <<>>
        /\ seedPc = "idle" => seedLog = <<>>
        /\ seedPc = "done" => seedLog = <<MsgError>>

\* C9 witness: the seeder was started on a list of one term without a
\* configured store and has returned after the one message
C9_Witness ==
    /\ ~isSupabaseConfigured
    /\ seedCustom = Given(<<T_CICD>>)
    /\ seedPc = "done"
    /\ seedLog = <<MsgError>>

(***************************************************************************)
(* Errors of getTermData (SpecResolve)                                     *)
(***************************************************************************)
\* C11 as stated: a generation call that throws, or a response that is no
\* JSON, fails getTermData with an error that differs from the not-found error
\* raised when no tier produced a record; no record is returned and no insert
\* is issued.
C11_AsStated ==
    \A c \in Callers :
        (calls[c].pc = "thrown" /\ calls[c].gen \in {"throw", "badjson"}) =>
            /\ calls[c].error # NotFoundError
            /\ calls[c].result = NoData
            /\ calls[c].inserts = 0

\* C11 amended: a generation call that throws, or a response that is no JSON,
\* fails getTermData with the very error raised when no tier produced a record
\* (the cause is logged, not passed on); a call fails only at the generation
\* tier, and then no record is returned and no insert is issued.
C11_OneError ==
    \A c \in Callers :
        calls[c].pc = "thrown" =>
            /\ calls[c].gen \in {"throw", "empty", "badjson"}
            /\ calls[c].genCalls = 1
            /\ calls[c].error = NotFoundError
            /\ calls[c].result = NoData
            /\ calls[c].inserts = 0
            /\ \A i \in 1..Len(pending) : pending[i].content # NoData

\* C11 witness: with the store configured the response for "CI/CD" was no
\* JSON, and the call has failed with the not-found error
C11_Witness ==
    /\ isSupabaseConfigured
    /\ calls["ui"].termId = T_CICD
    /\ calls["ui"].pc = "thrown"
    /\ calls["ui"].gen = "badjson"
    /\ calls["ui"].error = NotFoundError
    /\ pending = <<>>

(***************************************************************************)
(* The write-back (SpecResolve)                                            *)
(***************************************************************************)
\* the step in which the generation backend answers caller c with JSON
GenParsedStep(c) ==
    /\ calls[c].pc = "gen"
    /\ calls'[c] # calls[c]
    /\ calls'[c].gen = "json"

\* the step in which the store answers an insert
InsertAnsweredStep == store' # store \/ Len(pending') < Len(pending)

\* C12: after a successful generation getTermData returns the generated record
\* in the very step that issues the insert, without waiting for its answer,
\* and no answer to an insert (carried out, refused, or none at all) changes
\* what a call has returned or whether it returned.
C12_FireAndForget ==
    [][ /\ \A c \in Callers :
              GenParsedStep(c) =>
                  /\ calls'[c].pc = "returned"
                  /\ calls'[c].result = postProcess(calls'[c].payload, calls[c].dbId)
                  /\ store' = store
                  /\ isSupabaseConfigured =>
                        pending' = Append(pending, insertRow(calls'[c].result, calls[c].dbId))
        /\ InsertAnsweredStep => calls' = calls ]_vars

\* C12 witness: the call for "CI/CD" has returned its generated record while
\* the insert of that record is still unanswered and the table has no row
C12_Witness ==
    /\ calls["ui"].termId = T_CICD
    /\ calls["ui"].pc = "returned"
    /\ calls["ui"].gen = "json"
    /\ pending = << insertRow(calls["ui"].result, calls["ui"].dbId) >>
    /\ store[calls["ui"].dbId] = NoRow

(***************************************************************************)
(* The id of a record (SpecResolve)                                        *)
(***************************************************************************)
\* C13: every record getTermData(rawTerm) returns, from whichever tier, has id
\* normalizeId(rawTerm); every row in flight to the store or written by a call
\* has id equal to its content's id; every seed entry's id is the normalized
\* form of its key.
C13_IdIsNormalizedTerm ==
    /\ \A c \in Callers :
          calls[c].pc = "returned" =>
              calls[c].result.id = Str(normalizeId(calls[c].termId))
    /\ \A i \in 1..Len(pending) : pending[i].content.id = Str(pending[i].id)
    /\ \A key \in DOMAIN localDatabase : localDatabase[key].id = Str(normalizeId(key))

(***************************************************************************)
(* The table under concurrent resolves (SpecBoth)                          *)
(***************************************************************************)
\* C14: over every interleaving of the page's and the seeder's getTermData
\* calls, a record once held under an id is never replaced, modified or
\* deleted, and every change of the table is one new row, taken from the
\* inserts in flight, under an id that had none.
C14_StoredIsImmutable ==
    [][ /\ \A id \in Ids : store[id] # NoRow => store'[id] = store[id]
        /\ store' # store =>
              \E i \in 1..Len(pending) :
                  /\ store[pending[i].id] = NoRow
                  /\ store' = [store EXCEPT ![pending[i].id] = pending[i]]
                  /\ pending' = RemoveAt(pending, i) ]_vars

\* C14 witness: the page and the seeder both generated a record for "ci-cd",
\* both inserts have been answered, and the table holds the seeder's record,
\* which is not the one the page returned
C14_Witness ==
    /\ calls["ui"].pc = "returned" /\ calls["ui"].gen = "json"
    /\ calls["seeder"].pc = "returned" /\ calls["seeder"].gen = "json"
    /\ calls["ui"].dbId = normalizeId(T_CICD)
    /\ calls["seeder"].dbId = normalizeId(T_CICD)
    /\ calls["ui"].result # calls["seeder"].result
    /\ pending = <<>>
    /\ store[normalizeId(T_CICD)].content = calls["seeder"].result

(***************************************************************************)
(* Resolving again before the write-back lands (SpecResolve)               *)
(***************************************************************************)
\* an insert under id has been issued and not yet answered
InFlight(id) == \E i \in 1..Len(pending) : pending[i].id = id

\* C15: a lookup that is answered while the insert of an earlier resolve of the
\* same id is still in flight finds no row, and the call, the seed set having
\* no entry either, asks the generation backend again; so two different
\* records for one id can be returned and two inserts for it issued.
C15_NoReadYourWrites ==
    [][ \A c \in Callers :
            (/\ calls[c].pc = "lookup"
             /\ calls'[c] # calls[c]
             /\ calls'[c].lookup = "data"
             /\ InFlight(calls[c].dbId)
             /\ store[calls[c].dbId] = NoRow
             /\ ~hasSeed(calls[c].rawId)) =>
                /\ calls'[c].held = NoRow
                /\ calls'[c].pc = "gen"
                /\ calls'[c].genCalls = 1 ]_vars

\* C15 witness: two resolves of "ci-cd" have returned different generated
\* records; both inserts are in flight and the table still has no row
C15_Witness ==
    /\ Len(pending) = 2
    /\ pending[1].id = normalizeId(T_CICD)
    /\ pending[2].id = normalizeId(T_CICD)
    /\ pending[1].content # pending[2].content
    /\ store[normalizeId(T_CICD)] = NoRow
    /\ calls["ui"].pc = "returned"
    /\ calls["ui"].gen = "json"
    /\ calls["ui"].lookup = "data"
    /\ calls["ui"].held = NoRow
    /\ calls["ui"].result = pending[2].content

(***************************************************************************)
(* The seeder's walk, step by step (SpecSeed)                              *)
(***************************************************************************)
\* the seeder's getTermData call has been entered and has not settled
SeederInFlight == calls["seeder"].pc \in {"lookup", "gen"}

\* C16: the seeder has at most one getTermData call in flight: a call is
\* started only at the start of the run or when the timer that follows the
\* previous call fires, and then the previous call has settled (returned or
\* thrown); while a call is in flight the seeder waits for it, and while the
\* timer runs no call is in flight.
C16_SeederSerialized ==
    [][ /\ seedAttempts' # seedAttempts =>
              /\ seedAttempts' = Append(seedAttempts, seedList'[seedIdx'])
              /\ seedPc' = "get"
              /\ calls'["seeder"].termId = seedList'[seedIdx']
              /\ ~SeederInFlight
              /\ seedAttempts = <<>> => seedPc = "idle"
              /\ seedAttempts # <<>> =>
                    seedPc = "delay" /\ calls["seeder"].pc \in {"returned", "thrown"}
        /\ (SeederInFlight /\ calls'["seeder"].termId # calls["seeder"].termId) => FALSE
        /\ (Finished("seeder") /\ calls'["seeder"] # calls["seeder"]) =>
              seedPc \in {"idle", "delay"} /\ seedAttempts' # seedAttempts
        /\ seedPc = "get" => seedPc' \in {"get", "delay"}
        /\ (seedPc = "get" /\ seedPc' = "delay") => Finished("seeder")
        /\ SeederInFlight' => seedPc' = "get"
        /\ seedPc' = "delay" => Finished("seeder")' ]_vars

\* C16 witness: the first term's call returned, the timer fired, and the call
\* for the second term is in flight, waiting for the store's answer
C16_Witness ==
    /\ seedPc = "get"
    /\ seedList = <<T_API, T_CICD>>
    /\ seedAttempts = <<T_API, T_CICD>>
    /\ seedLog = <<MsgStart(2), MsgWarn, MsgProc(T_API), MsgOk(T_API), MsgProc(T_CICD)>>
    /\ calls["seeder"].termId = T_CICD
    /\ calls["seeder"].pc = "lookup"

\* the callback sequence of a run that has handed the terms of attempts to
\* getTermData: the two start messages, then per term its processing message
\* and its one outcome message
LogShape(log, list, attempts) ==
    /\ Len(log) >= 2
    /\ log[1] = MsgStart(Len(list))
    /\ log[2] = MsgWarn
    /\ \A k \in 1..Len(attempts) :
          /\ 2 * k + 1 <= Len(log)
          /\ log[2 * k + 1] = MsgProc(attempts[k])
          /\ 2 * k + 2 <= Len(log) =>
                log[2 * k + 2] \in {MsgOk(attempts[k]), MsgFail(attempts[k])}

\* C17: with the store configured the callback sequence of a run is the start
\* messages, then for each processed term in list order its processing message,
\* emitted in the step that calls getTermData for it, and exactly one outcome
\* message, emitted once that call has settled (success if it returned, failure
\* if it threw) and before the next processing message, then the completion
\* message, which is the last one; a message once emitted is never retracted.
C17_ProgressOrder ==
    [][ isSupabaseConfigured =>
          /\ seedLog' # seedLog =>
                \/ seedPc = "idle" /\ Len(seedLog') = 3
                \/ Len(seedLog') = Len(seedLog) + 1 /\ IsPrefix(seedLog, seedLog')
          /\ seedAttempts' # seedAttempts =>
                seedLog'[Len(seedLog')] = MsgProc(calls'["seeder"].termId)
          /\ (seedPc = "get" /\ seedLog' # seedLog) =>
                /\ calls["seeder"].pc \in {"returned", "thrown"}
                /\ seedLog'[Len(seedLog')] =
                      IF calls["seeder"].pc = "returned"
                      THEN MsgOk(calls["seeder"].termId)
                      ELSE MsgFail(calls["seeder"].termId)
          /\ seedPc = "done" => seedLog' = seedLog
          /\ seedPc' # "idle" =>
                /\ LogShape(seedLog', seedList', seedAttempts')
                /\ IsPrefix(seedAttempts', NonBlank(seedList'))
                /\ seedPc' = "get" => Len(seedLog') = 2 * Len(seedAttempts') + 1
                /\ seedPc' = "delay" => Len(seedLog') = 2 * Len(seedAttempts') + 2
                /\ seedPc' = "done" =>
                      /\ Len(seedLog') = 2 * Len(seedAttempts') + 3
                      /\ seedLog'[Len(seedLog')] = MsgFinal
                      /\ seedAttempts' = NonBlank(seedList') ]_vars

\* C17 witness: a run over a failing term, a blank entry and a succeeding term
\* has made all its callbacks
C17_Witness ==
    /\ isSupabaseConfigured
    /\ seedPc = "done"
    /\ seedList = <<T_CICD, Blank, T_API>>
    /\ seedLog = <<MsgStart(3), MsgWarn,
                   MsgProc(T_CICD), MsgFail(T_CICD),
                   MsgProc(T_API), MsgOk(T_API),
                   MsgFinal>>

(***************************************************************************)
(* What a reported success leaves in the store (SpecSeed)                  *)
(***************************************************************************)
\* the terms the run has reported as 'salvo/verificado'
ReportedOk == { seedLog[i].t : i \in { j \in 1..Len(seedLog) : seedLog[j].k = "ok" } }

\* C18: once the run is complete and no write-back is pending, the store holds
\* a record under the normalized id of every term the seeder reported as
\* 'salvo/verificado'.
C18_SeedingPersists ==
    (seedPc = "done" /\ pending = <<>>) =>
        \A t \in ReportedOk :
            /\ store[normalizeId(t)] # NoRow
            /\ store[normalizeId(t)].content # NoData

(***************************************************************************)
(* Without a configured store (SpecBoth)                                   *)
(***************************************************************************)
\* C19: while the store is not configured, whatever the term page and the
\* seeder do, no lookup and no insert is ever issued and the table is never
\* touched: every getTermData call reads the seed set first and, the seed set
\* having no entry, asks the generation backend, and returns the seed entry or
\* the post-processed generated record.
C19_ConfigurationGatesStore ==
    ~isSupabaseConfigured =>
        /\ pending = <<>>
        /\ \A id \in Ids : store[id] = NoRow
        /\ \A c \in Callers :
              /\ calls[c].pc # "lookup"
              /\ calls[c].lookups = 0
              /\ calls[c].lookup = "none"
              /\ calls[c].held = NoRow
              /\ calls[c].inserts = 0
              /\ calls[c].insertKey = <<>>
              /\ calls[c].pc # "idle" =>
                    /\ calls[c].seedRead
                    /\ calls[c].genCalls = IF hasSeed(calls[c].rawId) THEN 0 ELSE 1
              /\ calls[c].pc = "returned" =>
                    calls[c].result =
                        IF hasSeed(calls[c].rawId) THEN seedValue(calls[c].rawId)
                        ELSE postProcess(calls[c].payload, calls[c].dbId)

\* C19 witness: without a configured store the term page got a generated
\* record for "CI/CD" and the seeder was run and refused
C19_Witness ==
    /\ ~isSupabaseConfigured
    /\ calls["ui"].termId = T_CICD
    /\ calls["ui"].pc = "returned"
    /\ calls["ui"].gen = "json"
    /\ calls["ui"].seedRead
    /\ seedPc = "done"
    /\ seedLog = <<MsgError>>
    /\ pending = <<>>

(***************************************************************************)
(* One pass through the tiers (SpecResolve)                                *)
(***************************************************************************)
\* the lookup of a call found a stored record
StoreHit(rec) == rec.lookup = "data" /\ rec.held # NoRow /\ rec.held.content # NoData

\* C20: one getTermData call issues at most one lookup, one generation call and
\* one insert. While the lookup is open neither the seed set has been read nor
\* the backend asked; the backend is asked only after the seed set was read and
\* had no entry, and, with a configured store, after the lookup was answered
\* without a stored record; an insert is issued only with a configured store
\* and after the backend's answer was parsed, never after a store hit or a
\* seed hit; a failed generation is not repeated.
C20_NoRetriesTierOrder ==
    \A c \in Callers :
        LET rec == calls[c]
        IN /\ rec.lookups <= 1
           /\ rec.genCalls <= 1
           /\ rec.inserts <= 1
           /\ rec.lookups = 1 <=> (isSupabaseConfigured /\ rec.pc # "idle")
           /\ rec.pc = "lookup" =>
                 /\ rec.lookup = "none"
                 /\ ~rec.seedRead
                 /\ rec.genCalls = 0
                 /\ rec.inserts = 0
           /\ rec.seedRead => (isSupabaseConfigured => rec.lookup # "none" /\ ~StoreHit(rec))
           /\ rec.genCalls = 1 =>
                 /\ rec.seedRead
                 /\ ~hasSeed(rec.rawId)
           /\ rec.pc = "gen" => rec.genCalls = 1 /\ rec.gen = "none" /\ rec.inserts = 0
           /\ rec.gen # "none" => rec.genCalls = 1 /\ rec.pc \in {"returned", "thrown"}
           /\ rec.inserts = 1 =>
                 /\ isSupabaseConfigured
                 /\ rec.genCalls = 1
                 /\ rec.gen = "json"
                 /\ rec.pc = "returned"
           /\ (rec.pc = "returned" /\ (StoreHit(rec) \/ hasSeed(rec.rawId))) =>
                 rec.genCalls = 0 /\ rec.inserts = 0
           /\ rec.pc = "thrown" => rec.genCalls = 1 /\ rec.inserts = 0

\* C20 witness: a call whose lookup the store answered with an error went
\* through all three tiers once: one lookup, one generation call, one insert
C20_Witness ==
    /\ isSupabaseConfigured
    /\ calls["ui"].termId = T_CICD
    /\ calls["ui"].pc = "returned"
    /\ calls["ui"].lookup = "error"
    /\ calls["ui"].lookups = 1
    /\ calls["ui"].seedRead
    /\ calls["ui"].genCalls = 1
    /\ calls["ui"].inserts = 1

(***************************************************************************)
(* The key form of the seed tier (SpecResolve)                             *)
(***************************************************************************)
\* the call reached the seed tier and returned from it
SeedHit(rec) == rec.seedRead /\ rec.genCalls = 0

\* C21: a call that reaches the seed tier returns from it exactly when the
\* lower-cased, trimmed raw text is a key of the seed mapping; a raw term whose
\* normalized slug is a seed key while its lower-cased trimmed text is not
\* goes on to the generation tier.
C21_SeedKeyForm ==
    \A c \in Callers :
        calls[c].seedRead =>
            /\ SeedHit(calls[c]) <=> calls[c].rawId \in DOMAIN localDatabase
            /\ (/\ calls[c].dbId \in DOMAIN localDatabase
                /\ calls[c].rawId \notin DOMAIN localDatabase) => calls[c].genCalls = 1

(***************************************************************************)
(* The list the seeder walks (SpecWalk)                                    *)
(***************************************************************************)
\* C22: with the store configured the seeder walks the default list of 20
\* terms when no list or an empty list is supplied, and the supplied list
\* otherwise. A blank entry is passed over inside the step that reaches the
\* next term or the end of the list: it gets no callback, no getTermData call
\* and no delay, so at every await the calls made so far are the non-blank
\* entries up to the current position, and at the end the calls are the
\* non-blank entries of the list walked, each with its two messages.
C22_InputSelection ==
    (isSupabaseConfigured /\ seedPc # "idle") =>
        /\ Len(defaultList) = 20
        /\ seedList = IF seedCustom.given /\ seedCustom.list # <<>>
                      THEN seedCustom.list ELSE defaultList
        /\ seedLog[1] = MsgStart(Len(seedList))
        /\ seedPc \in {"get", "delay"} =>
              /\ seedIdx \in 1..Len(seedList)
              /\ ~isBlank(seedList[seedIdx])
              /\ seedAttempts = NonBlank(SubSeq(seedList, 1, seedIdx))
              /\ calls["seeder"].termId = seedList[seedIdx]
        /\ seedPc = "done" =>
              /\ seedAttempts = NonBlank(seedList)
              /\ Len(seedLog) = 2 * Len(NonBlank(seedList)) + 3
        /\ \A i \in 1..Len(seedLog) : seedLog[i].k \in {"proc", "ok", "fail"} => ~isBlank(seedLog[i].t)
        /\ CountKind(seedLog, "proc") = Len(seedAttempts)

\* C22 witness: the seeder was handed an empty list and has walked the whole
\* default list, one getTermData call per term
C22_Witness ==
    /\ isSupabaseConfigured
    /\ seedCustom = Given(<<>>)
    /\ seedPc = "done"
    /\ seedList = defaultList
    /\ Len(seedAttempts) = 20
    /\ CountKind(seedLog, "ok") = 20

(***************************************************************************)
(* The Glossary page (SpecGloss)                                           *)
(***************************************************************************)
\* C23: from the initial state (empty search, no letter), whatever is typed,
\* clicked or cleared, the search text is never non-empty while a letter is
\* active; a click on the letter that is active clears the letter and leaves
\* the search text as it is.
C23_FilterExclusive ==
    [][ /\ ~(searchTerm' # <<>> /\ activeLetter' # Null)
        /\ \A char \in Range(alphabet) :
              (handleLetterClick(char) /\ activeLetter = Str(<<char>>)) =>
                  /\ activeLetter' = Null
                  /\ searchTerm' = searchTerm ]_vars

\* C23 witness: with no search text the active letter "A" was clicked again
\* and is cleared
C23_Witness ==
    /\ lastEvent = Event("letter", <<"A">>)
    /\ activeLetter = Null
    /\ searchTerm = <<>>

\* C24: once fetchTerms has completed, on any of its paths, loading is false;
\* the list shown is the rows of the query when the query answered with a
\* non-empty list and the static list otherwise; until then loading is true
\* and the static list is shown; no handler touches either.
C24_GlossaryLoad ==
    /\ gPc = "done" =>
          /\ ~loading
          /\ isSupabaseConfigured <=> fetched # NotFetched
          /\ terms = IF fetched.kind = "data" /\ fetched.data # <<>>
                     THEN fetched.data ELSE staticGlossaryTerms
    /\ gPc # "done" =>
          /\ loading
          /\ fetched = NotFetched
          /\ terms = staticGlossaryTerms

\* C24 witness: the query answered with two rows, which are now the list
C24_Witness ==
    /\ gPc = "done"
    /\ ~loading
    /\ fetched = Fetched("data", <<RowBare, RowZero>>)
    /\ terms = <<RowBare, RowZero>>

====
